---- MODULE Spec2Model ----
(***************************************************************************)
(* Model of planners/master_problem.py: the MasterProblem of a column      *)
(* generation scheme.  One MasterProblem instance is modelled together     *)
(* with its agents (whose column sets change between calls) and the        *)
(* external convex solver.                                                 *)
(*                                                                         *)
(* Numbers.  Decision-variable values are multiples of 1/Denom and are     *)
(* stored as their numerators.  Expected claims are then numerators over   *)
(* Denom, variances and objective values numerators over Scale =           *)
(* (num_agents*Denom)^2, gradients numerators over num_agents^2 * Denom.   *)
(* A Python None is the empty tuple, a set value v is <<v>>.               *)
(***************************************************************************)
EXTENDS Integers, Sequences, FiniteSets, TLC

\* ---- bounds of the model ------------------------------------------------
MaxVars == 3          \* total number of columns (LP variables) over all agents
Denom == 2            \* resolution of the solver's grid: values are k/Denom
MaxClaim == 1         \* units a column claims over the whole horizon

\* ---- input sets ---------------------------------------------------------
AgentCounts == {2}
Horizons == {1, 2}
SinglePeriod == {1}
ClaimValues == {0, 1}
RewardValues == {1}
FixedCostValues == {0, 1}
Capacities == {1, 2}
Weights == {-1, 0, 5}
FairnessTypes == {"variance", "gini"}
SupportedScopes == {"timestep", "cumulative"}
FairnessScopes == SupportedScopes \cup {"episode"}

VARIABLES
    agents,                \* self.agents: <<[columns, fixed_cost_vector]>>
    horizon,               \* self.horizon
    num_agents,            \* self.num_agents
    resource_capacity,     \* self.resource_capacity
    langrangian_weight,    \* self.langrangian_weight
    fairness_type,         \* self.fairness_type
    fairness_scope,        \* self.fairness_scope
    decision_vars,         \* self.decision_vars: per agent, per column, .value
    lp,                    \* self.lp: [status, value]
    resource_constraints,  \* self.resource_constraints: <<[coef, rhs, dual_value]>>
    last                   \* the last call on the instance and what it gave back

config == <<horizon, num_agents, resource_capacity, langrangian_weight,
            fairness_type, fairness_scope>>
vars == <<agents, config, decision_vars, lp, resource_constraints, last>>

None == <<>>
Some(v) == <<v>>
Val(o) == o[1]

RECURSIVE SumTo(_, _)
SumTo(s, n) == IF n = 0 THEN 0 ELSE s[n] + SumTo(s, n - 1)

SumSeq(s) == SumTo(s, Len(s))

Scale == (num_agents * Denom) * (num_agents * Denom)

\* ---- the agents (external): horizon, fixed_cost_vector, get_columns() ----
ColumnPool(h) ==
    { [claims |-> c, reward |-> r] :
        c \in { k \in [1..h -> ClaimValues] : SumSeq(k) <= MaxClaim },
        r \in [1..h -> RewardValues] }

get_columns(a) == agents[a].columns

NumColumns(a) == Len(get_columns(a))

TotalColumns == SumSeq([a \in 1..num_agents |-> NumColumns(a)])

\* ---- util.fairness_penalties (external library) --------------------------
\* variance of values given over Denom, as a numerator over Scale
variance_penalty(values) ==
    Len(values) * SumSeq([i \in 1..Len(values) |-> values[i] * values[i]])
        - SumSeq(values) * SumSeq(values)

variance_penalty_numpy(values) ==
    SumSeq([i \in 1..Len(values) |->
              (Len(values) * values[i] - SumSeq(values))
            * (Len(values) * values[i] - SumSeq(values))]) \div Len(values)

\* d variance / d values[i], as a numerator over num_agents^2 * Denom
variance_penalty_gradient(values) ==
    [i \in 1..Len(values) |-> 2 * (Len(values) * values[i] - SumSeq(values))]

\* ---- MasterProblem.solve: formulation ------------------------------------
BuildDecisionVars ==
    [a \in 1..num_agents |-> [c \in 1..NumColumns(a) |-> None]]

\* the capacity constraint with one unit too many on its right-hand side
RelaxedResourceConstraints ==
    [t \in 1..horizon |->
        [coef |-> [a \in 1..num_agents |->
                     [c \in 1..NumColumns(a) |-> get_columns(a)[c].claims[t]]],
         rhs |-> resource_capacity + 1,
         dual_value |-> None]]

\* lines 39-48: one constraint per period over the agents' current columns
FreshResourceConstraints ==
    [t \in 1..horizon |->
        [coef |-> [a \in 1..num_agents |->
                     [c \in 1..NumColumns(a) |-> get_columns(a)[c].claims[t]]],
         rhs |-> resource_capacity,
         dual_value |-> None]]

\* the stored list without the reset of line 39
AccumulatedResourceConstraints == resource_constraints \o FreshResourceConstraints

\* self.resource_constraints as solve() leaves it before the solver runs
BuildResourceConstraints == FreshResourceConstraints

\* sum(decision_vars[a]) == 1 with nonneg variables, on the grid
Simplex(n) == { s \in [1..n -> 0..Denom] : SumSeq(s) = Denom }

RECURSIVE Assignments(_)
Assignments(k) ==
    IF k = 0 THEN { <<>> }
    ELSE { Append(p, s) : p \in Assignments(k - 1), s \in Simplex(NumColumns(k)) }

\* left-hand side of a resource constraint at the point x
ConstraintLhs(con, x) ==
    SumSeq([a \in 1..Len(con.coef) |->
              SumSeq([c \in 1..Len(con.coef[a]) |-> x[a][c] * con.coef[a][c]])])

Feasible(cons, x) ==
    \A t \in 1..Len(cons) : ConstraintLhs(cons[t], x) <= cons[t].rhs * Denom

\* ---- MasterProblem.solve: objective --------------------------------------
\* the net value of a column without its reward
NetValueNoReward(a, c) ==
    - SumSeq([t \in 1..horizon |->
                agents[a].fixed_cost_vector[t] * get_columns(a)[c].claims[t]])

NetValue(a, c) ==
    SumSeq(get_columns(a)[c].reward)
      - SumSeq([t \in 1..horizon |->
                  agents[a].fixed_cost_vector[t] * get_columns(a)[c].claims[t]])

ExpectedClaimsAt(x, a, t) ==
    SumSeq([c \in 1..NumColumns(a) |-> x[a][c] * get_columns(a)[c].claims[t]])

ExpectedCumulativeClaims(x, a) ==
    SumSeq([c \in 1..NumColumns(a) |-> x[a][c] * SumSeq(get_columns(a)[c].claims)])

\* the objective assembly without its else branch
ObjectiveAssemblyNoScopeCheck ==
    IF langrangian_weight > 0 /\ fairness_scope \in SupportedScopes
    THEN IF fairness_type = "variance" THEN "ok" ELSE "UnboundLocalError"
    ELSE "ok"

\* outcome of the objective assembly: "ok" or the exception it raises
ObjectiveAssembly ==
    IF langrangian_weight > 0
    THEN IF fairness_scope \in SupportedScopes
         THEN IF fairness_type = "variance" THEN "ok" ELSE "UnboundLocalError"
         ELSE "ValueError"
    ELSE "ok"

\* the fairness term taken over cumulative claims whatever the scope
ObjectivePenaltyCumulative(x) ==
    IF langrangian_weight > 0
    THEN langrangian_weight *
         variance_penalty([a \in 1..num_agents |-> ExpectedCumulativeClaims(x, a)])
    ELSE 0

\* the fairness term subtracted in the objective, over Scale
ObjectivePenalty(x) ==
    IF langrangian_weight > 0
    THEN IF fairness_scope = "timestep"
         THEN langrangian_weight *
              SumSeq([t \in 1..horizon |->
                  variance_penalty([a \in 1..num_agents |-> ExpectedClaimsAt(x, a, t)])])
         ELSE langrangian_weight *
              variance_penalty([a \in 1..num_agents |-> ExpectedCumulativeClaims(x, a)])
    ELSE 0

\* total_expected_reward at the point x, over Scale
Objective(x) ==
    num_agents * num_agents * Denom *
        SumSeq([a \in 1..num_agents |->
                  SumSeq([c \in 1..NumColumns(a) |-> x[a][c] * NetValue(a, c)])])
      - ObjectivePenalty(x)

\* ---- the convex solver (external) ----------------------------------------
FeasibleSet(cons) == { x \in Assignments(num_agents) : Feasible(cons, x) }

MaxOf(S) == CHOOSE v \in S : \A u \in S : u <= v

\* the optimal value over a nonempty feasible set
BestValue(F) == MaxOf({ Objective(x) : x \in F })

\* the optimal points among the feasible points F; empty when infeasible
Optimal(F, best) == { x \in F : Objective(x) = best }

\* the shadow price of each resource constraint at an optimum: the gain in
\* optimal value from one more unit of capacity in that period, over Scale
Duals(cons, best) ==
    [t \in 1..Len(cons) |->
        BestValue(FeasibleSet([cons EXCEPT ![t].rhs = @ + 1])) - best]

\* ---- results of a call -----------------------------------------------------
NoResult ==
    [op |-> "none", outcome |-> "ok", site |-> "none", objective |-> None,
     distributions |-> <<>>, fairness_impact |-> None, duals |-> <<>>,
     gradients |-> <<>>, penalty |-> None]

Raised(exception, site) == [outcome |-> exception, site |-> site, value |-> None]

Returned(value) == [outcome |-> "ok", site |-> "none", value |-> value]

\* ---- reading decision_vars[a][c].value against the agents' current columns
AccessFault(dv, a, c) ==
    IF a > Len(dv) THEN "IndexError"
    ELSE IF c > Len(dv[a]) THEN "IndexError"
    ELSE IF dv[a][c] = None THEN "TypeError"
    ELSE "ok"

\* the first access, in loop order (agent, then column), that raises
FirstFault(dv) ==
    LET bad == { p \in (1..num_agents) \X (1..MaxVars) :
                    /\ p[2] <= NumColumns(p[1])
                    /\ AccessFault(dv, p[1], p[2]) # "ok" }
    IN  IF bad = {} THEN "ok"
        ELSE LET m == CHOOSE p \in bad :
                        \A q \in bad : p[1] < q[1] \/ (p[1] = q[1] /\ p[2] <= q[2])
             IN  AccessFault(dv, m[1], m[2])

Values(dv) == [a \in 1..Len(dv) |-> [c \in 1..Len(dv[a]) |-> Val(dv[a][c])]]

\* ---- MasterProblem.compute_fairness_gradients -----------------------------
GradientsTimestep(x) ==
    [a \in 1..num_agents |->
        [t \in 1..horizon |->
            variance_penalty_gradient(
                [b \in 1..num_agents |-> ExpectedClaimsAt(x, b, t)])[a]]]

\* the cumulative branch taking the first period's gradient for every period
GradientsFirstPeriod(x) ==
    [a \in 1..num_agents |->
        [t \in 1..horizon |->
            variance_penalty_gradient(
                [b \in 1..num_agents |-> ExpectedClaimsAt(x, b, 1)])[a]]]

GradientsCumulative(x) ==
    [a \in 1..num_agents |->
        [t \in 1..horizon |->
            variance_penalty_gradient(
                [b \in 1..num_agents |-> ExpectedCumulativeClaims(x, b)])[a]]]

ComputeFairnessGradients(dv) ==
    IF fairness_scope \notin SupportedScopes
    THEN Raised("ValueError", "compute_fairness_gradients")
    ELSE IF FirstFault(dv) # "ok"
    THEN Raised(FirstFault(dv), "compute_fairness_gradients")
    ELSE IF fairness_type # "variance"
    THEN Raised("NotImplementedError", "compute_fairness_gradients")
    ELSE IF fairness_scope = "timestep"
    THEN Returned(GradientsTimestep(Values(dv)))
    ELSE Returned(GradientsCumulative(Values(dv)))

\* ---- MasterProblem.compute_realized_fairness_penalty ----------------------
RealizedTimestep(x) ==
    SumSeq([t \in 1..horizon |->
        variance_penalty_numpy([a \in 1..num_agents |-> ExpectedClaimsAt(x, a, t)])])

RealizedCumulative(x) ==
    variance_penalty_numpy([a \in 1..num_agents |-> ExpectedCumulativeClaims(x, a)])

ComputeRealizedFairnessPenalty(dv) ==
    IF fairness_scope \notin SupportedScopes
    THEN Raised("ValueError", "compute_realized_fairness_penalty")
    ELSE IF FirstFault(dv) # "ok"
    THEN Raised(FirstFault(dv), "compute_realized_fairness_penalty")
    ELSE IF fairness_scope = "timestep"
    THEN Returned(Some(RealizedTimestep(Values(dv))))
    ELSE Returned(Some(RealizedCumulative(Values(dv))))

\* ---- MasterProblem.get_dual_prices ----------------------------------------
\* the duals of the constraints that have one, the others left out
AvailableDualsOnly(rc) ==
    LET I == { t \in 1..Len(rc) : rc[t].dual_value # None }
    IN  IF I = {} THEN <<>>
        ELSE [t \in 1..Cardinality(I) |-> Val(rc[CHOOSE i \in I : TRUE].dual_value)]

GetDualPrices(rc) ==
    [t \in 1..Len(rc) |->
        IF rc[t].dual_value # None THEN Val(rc[t].dual_value) ELSE 0]

\* ---- MasterProblem.get_decision_distribution ------------------------------
\* a probability vector is [num, den]: entry c is num[c] / den
Weights0(a_vars) ==
    [c \in 1..Len(a_vars) |-> IF a_vars[c] # None THEN Val(a_vars[c]) ELSE 0]

\* the weights over their sum, without the uniform fallback
NormalizeNoFallback(a_vars) ==
    [num |-> Weights0(a_vars), den |-> SumSeq(Weights0(a_vars))]

Normalize(a_vars) ==
    IF SumSeq(Weights0(a_vars)) = 0
    THEN [num |-> [c \in 1..Len(a_vars) |-> 1], den |-> Len(a_vars)]
    ELSE [num |-> Weights0(a_vars), den |-> SumSeq(Weights0(a_vars))]

GetDecisionDistribution(dv) == [a \in 1..Len(dv) |-> Normalize(dv[a])]

\* ---- MasterProblem.solve: after the solver --------------------------------
\* lines 99-104 on the decision variables dv, with lp.value = value
AfterSolve(dv, value) ==
    LET g == ComputeFairnessGradients(dv)
        p == ComputeRealizedFairnessPenalty(dv)
    IN  IF g.outcome # "ok"
        THEN [NoResult EXCEPT !.op = "solve", !.outcome = g.outcome, !.site = g.site]
        ELSE IF p.outcome # "ok"
        THEN [NoResult EXCEPT !.op = "solve", !.outcome = p.outcome, !.site = p.site]
        ELSE [NoResult EXCEPT !.op = "solve",
                              !.objective = value,
                              !.distributions = GetDecisionDistribution(dv),
                              !.fairness_impact =
                                  Some(langrangian_weight * Val(p.value))]

\* the constraints of this call carry the duals the solver reports
WithDuals(rc, d) ==
    [t \in 1..Len(rc) |->
        IF t > Len(rc) - Len(d)
        THEN [rc[t] EXCEPT !.dual_value = Some(d[t - (Len(rc) - Len(d))])]
        ELSE rc[t]]

\* ---- the state machine -----------------------------------------------------
\* __init__ on agents seeded with one column each
Construct(horizons, types, scopes, costs) ==
    /\ num_agents \in AgentCounts
    /\ horizon \in horizons
    /\ resource_capacity \in Capacities
    /\ langrangian_weight \in Weights
    /\ fairness_type \in types
    /\ fairness_scope \in scopes
    /\ \E f \in costs :
         agents \in [1..num_agents ->
                       { [columns |-> <<col>>,
                          fixed_cost_vector |-> [t \in 1..horizon |-> f]] :
                         col \in ColumnPool(horizon) }]
    /\ decision_vars = <<>>
    /\ lp = [status |-> "none", value |-> None]
    /\ resource_constraints = <<>>
    /\ last = NoResult

\* single-period instances under every configuration
Init == Construct(SinglePeriod, FairnessTypes, FairnessScopes, FixedCostValues)

\* instances of every horizon under the supported configurations
InitSupported == Construct(Horizons, {"variance"}, SupportedScopes, {0})

\* an agent produces one more column, one it does not hold yet
AddColumn ==
    /\ TotalColumns < MaxVars
    /\ \E a \in 1..num_agents, col \in ColumnPool(horizon) :
         /\ \A c \in 1..NumColumns(a) : get_columns(a)[c] # col
         /\ agents' = [agents EXCEPT ![a].columns = Append(@, col)]
    /\ last' = [NoResult EXCEPT !.op = "agent"]
    /\ UNCHANGED <<config, decision_vars, lp, resource_constraints>>

\* an agent withdraws its latest column (it always keeps one)
DropColumn ==
    /\ \E a \in 1..num_agents :
         /\ NumColumns(a) > 1
         /\ agents' = [agents EXCEPT ![a].columns = SubSeq(@, 1, Len(@) - 1)]
    /\ last' = [NoResult EXCEPT !.op = "agent"]
    /\ UNCHANGED <<config, decision_vars, lp, resource_constraints>>

Solve ==
    /\ IF ObjectiveAssembly # "ok"
       THEN /\ decision_vars' = BuildDecisionVars
            /\ resource_constraints' = BuildResourceConstraints
            /\ lp' = lp
            /\ last' = [NoResult EXCEPT !.op = "solve",
                                        !.outcome = ObjectiveAssembly,
                                        !.site = "solve"]
       ELSE IF FeasibleSet(FreshResourceConstraints) = {}
       THEN /\ decision_vars' = BuildDecisionVars
            /\ resource_constraints' = BuildResourceConstraints
            /\ lp' = [status |-> "infeasible", value |-> None]
            /\ last' = AfterSolve(BuildDecisionVars, None)
       ELSE \E F \in { FeasibleSet(FreshResourceConstraints) } :
            \E best \in { BestValue(F) } :
            \E duals \in { Duals(FreshResourceConstraints, best) } :
            \E x \in Optimal(F, best) :
              /\ decision_vars' =
                    [a \in 1..num_agents |->
                        [c \in 1..NumColumns(a) |-> Some(x[a][c])]]
              /\ resource_constraints' = WithDuals(BuildResourceConstraints, duals)
              /\ lp' = [status |-> "optimal", value |-> Some(best)]
              /\ last' = AfterSolve(decision_vars', Some(best))
    /\ UNCHANGED <<agents, config>>

CallComputeFairnessGradients ==
    /\ last' = LET g == ComputeFairnessGradients(decision_vars)
               IN  IF g.outcome # "ok"
                   THEN [NoResult EXCEPT !.op = "compute_fairness_gradients",
                                         !.outcome = g.outcome, !.site = g.site]
                   ELSE [NoResult EXCEPT !.op = "compute_fairness_gradients",
                                         !.gradients = g.value]
    /\ UNCHANGED <<agents, config, decision_vars, lp, resource_constraints>>

CallComputeRealizedFairnessPenalty ==
    /\ last' = LET p == ComputeRealizedFairnessPenalty(decision_vars)
               IN  IF p.outcome # "ok"
                   THEN [NoResult EXCEPT !.op = "compute_realized_fairness_penalty",
                                         !.outcome = p.outcome, !.site = p.site]
                   ELSE [NoResult EXCEPT !.op = "compute_realized_fairness_penalty",
                                         !.penalty = p.value]
    /\ UNCHANGED <<agents, config, decision_vars, lp, resource_constraints>>

CallGetDualPrices ==
    /\ last' = [NoResult EXCEPT !.op = "get_dual_prices",
                                !.duals = GetDualPrices(resource_constraints)]
    /\ UNCHANGED <<agents, config, decision_vars, lp, resource_constraints>>

CallGetDecisionDistribution ==
    /\ last' = [NoResult EXCEPT !.op = "get_decision_distribution",
                                !.distributions = GetDecisionDistribution(decision_vars)]
    /\ UNCHANGED <<agents, config, decision_vars, lp, resource_constraints>>

Next ==
    \/ AddColumn
    \/ DropColumn
    \/ Solve
    \/ CallComputeFairnessGradients
    \/ CallComputeRealizedFairnessPenalty
    \/ CallGetDualPrices
    \/ CallGetDecisionDistribution

Spec == Init /\ [][Next]_vars

SpecSupported == InitSupported /\ [][Next]_vars

\* ---- vocabulary of the properties ------------------------------------------
\* solve() has run at least once: it leaves one variable list per agent
SolveCalled == decision_vars # <<>>

\* the last solver run left a value in every decision variable
ValuesSet ==
    /\ SolveCalled
    /\ \A a \in 1..Len(decision_vars) :
         \A c \in 1..Len(decision_vars[a]) : decision_vars[a][c] # None

SolveReturned == last.op = "solve" /\ last.outcome = "ok"

UnitColumn == [claims |-> <<1>>, reward |-> <<1>>]

IdleColumn == [claims |-> <<0>>, reward |-> <<1>>]

\* Scenario A of the specification, with the capacity left open
ScenarioA(capacity) ==
    /\ num_agents = 2 /\ horizon = 1
    /\ resource_capacity = capacity
    /\ langrangian_weight = 0
    /\ fairness_type = "variance" /\ fairness_scope \in SupportedScopes
    /\ \A a \in 1..num_agents :
         /\ agents[a].columns = <<UnitColumn>>
         /\ agents[a].fixed_cost_vector = <<0>>

ScenarioAResult ==
    /\ last.outcome = "ok"
    /\ Len(last.distributions) = 2
    /\ \A a \in 1..2 :
         /\ Len(last.distributions[a].num) = 1
         /\ last.distributions[a].den > 0
         /\ last.distributions[a].num[1] = last.distributions[a].den
    /\ last.objective = Some(2 * Scale)

\* C2 as stated: Scenario A with resource_capacity = 1 returns distributions
\* [1.0] and [1.0] and the objective value 2.0.
C2_ScenarioA_Capacity1 ==
    (ScenarioA(1) /\ last.op = "solve") => ScenarioAResult

\* C2, amended: Scenario A with resource_capacity = 2 (room for both unit
\* claims) returns distribution [1.0] for each agent and objective value 2.0.
C2_ScenarioA_Capacity2 ==
    (ScenarioA(2) /\ last.op = "solve") => ScenarioAResult

C2_Witness == ScenarioA(2) /\ SolveReturned /\ lp.status = "optimal"

\* C1: when the solver ends in a failure status, so that the decision
\* variables have no value, solve() returns its triple instead of raising,
\* in both fairness scopes and for every langrangian_weight.
C1_FailureIsReturned ==
    (/\ last.op = "solve"
     /\ fairness_scope \in SupportedScopes
     /\ lp.status = "infeasible")
    => last.outcome = "ok"

\* ---- C3: the fairness impact and the objective -----------------------------
\* expected net reward of the solved plan, over Scale
NetRewardOfSolution ==
    num_agents * num_agents * Denom *
        SumSeq([a \in 1..num_agents |->
            SumSeq([c \in 1..NumColumns(a) |->
                Val(decision_vars[a][c]) * NetValue(a, c)])])

\* variance of the solved plan's expected claims in the configured scope, over Scale
PenaltyOfSolution ==
    IF fairness_scope = "timestep"
    THEN SumSeq([t \in 1..horizon |->
            variance_penalty_numpy(
                [a \in 1..num_agents |->
                    ExpectedClaimsAt(Values(decision_vars), a, t)])])
    ELSE variance_penalty_numpy(
            [a \in 1..num_agents |->
                ExpectedCumulativeClaims(Values(decision_vars), a)])

ImpactMatchesObjective ==
    /\ last.fairness_impact = Some(langrangian_weight * PenaltyOfSolution)
    /\ last.objective = Some(NetRewardOfSolution - Val(last.fairness_impact))

\* Scenario B of the specification
ScenarioB ==
    /\ num_agents = 2 /\ horizon = 1
    /\ resource_capacity = 1
    /\ langrangian_weight = 5
    /\ agents[1].columns = <<UnitColumn>>
    /\ agents[2].columns = <<IdleColumn>>
    /\ \A a \in 1..num_agents : agents[a].fixed_cost_vector = <<0>>

\* 5 * variance([1, 0]) = 5/4 and 2.0 - 5/4, over Scale
ScenarioBResult ==
    /\ last.fairness_impact = Some(5 * (Scale \div 4))
    /\ last.objective = Some(2 * Scale - 5 * (Scale \div 4))

\* C3 as stated: after a successful solve(), for every langrangian_weight
\* (positive, zero or negative), fairness_impact is the weight times the
\* realized penalty and objective value = expected net reward - fairness_impact.
C3_EveryWeight ==
    (SolveReturned /\ fairness_type = "variance") => ImpactMatchesObjective

\* C3, amended: after a successful solve() with langrangian_weight >= 0,
\* fairness_impact is the weight times the realized penalty and objective
\* value = expected net reward - fairness_impact, in both scopes; Scenario B
\* gives impact 5 * variance([1,0]) and objective 2.0 - 5 * variance([1,0]).
C3_NonnegativeWeight ==
    (SolveReturned /\ fairness_type = "variance" /\ langrangian_weight >= 0)
    => /\ ImpactMatchesObjective
       /\ ScenarioB => ScenarioBResult

C3_Witness ==
    /\ SolveReturned
    /\ langrangian_weight > 0
    /\ horizon = 2
    /\ fairness_scope = "timestep"
    /\ Val(last.fairness_impact) > 0
    /\ PenaltyOfSolution #
         variance_penalty_numpy(
            [a \in 1..num_agents |->
                ExpectedCumulativeClaims(Values(decision_vars), a)])

\* ---- C4: get_dual_prices ----------------------------------------------------
DualsDefaulted ==
    \A t \in 1..Len(last.duals) :
        last.duals[t] = IF resource_constraints[t].dual_value = None
                        THEN 0
                        ELSE Val(resource_constraints[t].dual_value)

\* C4 as stated: in every reachable state, a freshly constructed instance
\* included, get_dual_prices() returns exactly horizon floats, 0.0 where no
\* dual is available.
C4_AlwaysHorizon ==
    last.op = "get_dual_prices"
    => /\ last.outcome = "ok"
       /\ Len(last.duals) = horizon
       /\ DualsDefaulted

\* C4, amended: once solve() has been called (whether it returned, met a
\* failed solver or raised), get_dual_prices() returns exactly horizon floats,
\* 0.0 where no dual is available; on a freshly constructed instance it
\* returns an empty array.
C4_HorizonAfterSolve ==
    last.op = "get_dual_prices"
    => /\ last.outcome = "ok"
       /\ SolveCalled => Len(last.duals) = horizon
       /\ ~SolveCalled => last.duals = <<>>
       /\ DualsDefaulted

C4_Witness ==
    /\ last.op = "get_dual_prices"
    /\ lp.status = "infeasible"
    /\ Len(last.duals) = horizon
    /\ \A t \in 1..horizon : resource_constraints[t].dual_value = None

\* ---- C5: get_decision_distribution -------------------------------------------
IsDistribution(v) ==
    /\ v.den > 0
    /\ \A c \in 1..Len(v.num) : v.num[c] >= 0
    /\ SumSeq(v.num) = v.den

\* uniform when every weight is zero (an unset value counting as 0.0),
\* otherwise the weights divided by their sum
FallbackOrNormalized(v, a_vars) ==
    /\ Len(v.num) = Len(a_vars)
    /\ IF \A c \in 1..Len(a_vars) : a_vars[c] = None \/ a_vars[c] = Some(0)
       THEN /\ v.den = Len(a_vars)
            /\ \A c \in 1..Len(a_vars) : v.num[c] = 1
       ELSE \A c \in 1..Len(a_vars) :
              /\ a_vars[c] # None
              /\ v.num[c] * SumSeq(Values(<<a_vars>>)[1]) = Val(a_vars[c]) * v.den

DistributionsValid ==
    /\ Len(last.distributions) = num_agents
    /\ \A a \in 1..num_agents :
         /\ IsDistribution(last.distributions[a])
         /\ FallbackOrNormalized(last.distributions[a], decision_vars[a])

\* C5 as stated: in every state in which it can be called, before any solve()
\* included, get_decision_distribution() returns num_agents vectors, each
\* nonnegative and summing to 1.0, uniform when all the agent's weights are
\* zero and the normalized weights otherwise.
C5_AlwaysPerAgent ==
    last.op = "get_decision_distribution"
    => /\ last.outcome = "ok"
       /\ Len(last.distributions) = num_agents
       /\ \A a \in 1..Len(last.distributions) :
            IsDistribution(last.distributions[a])

\* C5, amended: once solve() has been called (successful, failed or raised),
\* get_decision_distribution() returns num_agents vectors, one entry per
\* column the agent had at that solve(), each nonnegative and summing to 1.0,
\* uniform when all the agent's weights are zero or unset and the normalized
\* weights otherwise; before any solve() it returns an empty list.
C5_PerAgentAfterSolve ==
    last.op = "get_decision_distribution"
    => /\ last.outcome = "ok"
       /\ SolveCalled => DistributionsValid
       /\ ~SolveCalled => last.distributions = <<>>

C5_Witness ==
    /\ last.op = "get_decision_distribution"
    /\ SolveCalled
    /\ ~ValuesSet
    /\ \E a \in 1..num_agents :
         last.distributions[a] = [num |-> <<1, 1>>, den |-> 2]

\* ---- C6: capacity of the returned distributions -------------------------------
RECURSIVE DenProduct(_, _)
DenProduct(dist, n) == IF n = 0 THEN 1 ELSE dist[n].den * DenProduct(dist, n - 1)

\* expected claims of the distributions against one stored constraint,
\* over the product of the denominators
ExpectedTotalClaims(dist, con) ==
    SumSeq([a \in 1..Len(dist) |->
        SumSeq([c \in 1..Len(dist[a].num) |-> dist[a].num[c] * con.coef[a][c]])
          * (DenProduct(dist, Len(dist)) \div dist[a].den)])

CapacityRespected(dist) ==
    \A t \in 1..Len(resource_constraints) :
        ExpectedTotalClaims(dist, resource_constraints[t])
            <= resource_capacity * DenProduct(dist, Len(dist))

HandsBackDistributions ==
    /\ last.op \in {"solve", "get_decision_distribution"}
    /\ last.outcome = "ok"
    /\ SolveCalled

\* C6 as stated: the distributions returned by solve() and by any later
\* get_decision_distribution() respect the capacity in every period, the
\* uniform fallback included.
C6_CapacityAlways ==
    HandsBackDistributions => CapacityRespected(last.distributions)

\* C6, amended: after a successful solve(), the distributions returned by
\* solve() and by any later get_decision_distribution() respect the capacity
\* in every period; the uniform fallback, applied when the solver left no
\* values, carries no such guarantee.
C6_CapacityAfterSuccess ==
    (HandsBackDistributions /\ ValuesSet) => CapacityRespected(last.distributions)

C6_Witness ==
    /\ last.op = "get_decision_distribution"
    /\ ValuesSet
    /\ \E a \in 1..num_agents : Len(last.distributions[a].num) = 2
    /\ \E t \in 1..horizon :
         ExpectedTotalClaims(last.distributions, resource_constraints[t])
            = resource_capacity * DenProduct(last.distributions, num_agents)

\* ---- C7: unknown fairness_scope ------------------------------------------------
UnknownScope == fairness_scope \notin SupportedScopes

ValuesReadable == ValuesSet /\ FirstFault(decision_vars) = "ok"

\* C8: with a valid fairness_scope and a fairness_type other than "variance",
\* compute_fairness_gradients() and compute_realized_fairness_penalty() both
\* raise NotImplementedError instead of returning a value.
C8_UnsupportedTypeRaises ==
    (/\ fairness_scope \in SupportedScopes
     /\ fairness_type # "variance"
     /\ ValuesReadable
     /\ last.op \in {"compute_fairness_gradients",
                     "compute_realized_fairness_penalty"})
    => last.outcome = "NotImplementedError"

\* ---- C9: the fairness gradients ----------------------------------------------------
SolvedClaimsAt(t) ==
    [a \in 1..num_agents |-> ExpectedClaimsAt(Values(decision_vars), a, t)]

SolvedCumulativeClaims ==
    [a \in 1..num_agents |-> ExpectedCumulativeClaims(Values(decision_vars), a)]

GradientsAsSpecified ==
    /\ Len(last.gradients) = num_agents
    /\ \A a \in 1..num_agents :
         /\ Len(last.gradients[a]) = horizon
         /\ \A t \in 1..horizon :
              last.gradients[a][t] =
                 IF fairness_scope = "cumulative"
                 THEN variance_penalty_gradient(SolvedCumulativeClaims)[a]
                 ELSE variance_penalty_gradient(SolvedClaimsAt(t))[a]
         /\ fairness_scope = "cumulative" =>
              \A t \in 1..horizon : last.gradients[a][t] = last.gradients[a][1]

\* C9: after a successful solve(), compute_fairness_gradients() returns
\* num_agents arrays of length horizon; in cumulative scope every entry of
\* agent a's array is entry a of the gradient of the horizon-summed expected
\* claims, in timestep scope entry t is entry a of the gradient of the
\* expected claims at period t.
C9_Gradients ==
    (/\ last.op = "compute_fairness_gradients"
     /\ fairness_type = "variance"
     /\ fairness_scope \in SupportedScopes
     /\ ValuesReadable)
    => last.outcome = "ok" /\ GradientsAsSpecified

C9_Witness ==
    /\ last.op = "compute_fairness_gradients"
    /\ last.outcome = "ok"
    /\ ValuesReadable
    /\ fairness_scope = "timestep"
    /\ horizon = 2
    /\ last.gradients[1][1] # last.gradients[1][2]

\* ---- C10: solve() rebuilds its state ---------------------------------------------------
\* C10: after each solve(), whatever the column sets were before,
\* decision_vars holds exactly num_agents lists as long as each agent's
\* current column set and resource_constraints holds exactly horizon
\* constraints, built from the current columns.
C10_Rebuilt ==
    last.op = "solve"
    => /\ Len(decision_vars) = num_agents
       /\ \A a \in 1..num_agents : Len(decision_vars[a]) = NumColumns(a)
       /\ Len(resource_constraints) = horizon
       /\ \A t \in 1..Len(resource_constraints) :
            /\ t <= horizon
            /\ resource_constraints[t].rhs = resource_capacity
            /\ resource_constraints[t].coef =
                 [a \in 1..num_agents |->
                    [c \in 1..NumColumns(a) |-> get_columns(a)[c].claims[t]]]

C10_Witness ==
    /\ last.op = "solve"
    /\ last.outcome = "ok"
    /\ \E a \in 1..num_agents : NumColumns(a) = 2
    /\ Len(resource_constraints) = horizon

====
